---- MODULE Spec2Model ----
(***************************************************************************)
(* Model of the Douban Top 250 scraper (src/src/scraper.py): the Movie     *)
(* record, the JSON cache store, the page fetcher with its per-item        *)
(* extraction loop, the pacing delay and the fetch_movies orchestrator;    *)
(* with them load_cached_movies (src/analytics.py) and load_data           *)
(* (src/app/utils.py), the two callers of the cache file outside the       *)
(* scraper.                                                                *)
(*                                                                         *)
(* Spec is fetch_movies called repeatedly on one scraper; SpecRT is the    *)
(* cache round trip alone; SpecStore is one _write_cache beside concurrent *)
(* readers of the file; SpecParse is the item loop on one fragment;        *)
(* SpecApp is one call of load_data.                                       *)
(*                                                                         *)
(* Python values are tagged records, [ty |-> "NoneType"], [ty |-> "str",   *)
(* v |-> <<chars>>], ...; JSON tokens are tagged records [j |-> "null"],   *)
(* [j |-> "string", v |-> <<escaped chars>>], ...  A text is a sequence of *)
(* one-character strings.                                                  *)
(***************************************************************************)
EXTENDS Integers, Sequences, FiniteSets, TLC

\* ------------------------------------------------------------------ bounds
\* fetch_movies calls made in one behaviour (in SpecStore: reads of the file)
MaxCalls == 2
\* item fragments (li) a served page holds at most
MaxItems == 2
\* served pages, over a behaviour, that are not the full well-formed page
MaxOddPages == 1
\* length of the record sequences the cache round trip and _write_cache are
\* tried on
MaxSeqLen == 2

\* ------------------------------------------------------- program constants
\* range(0, 250, 25) in fetch_movies
RangeStop == 250
RangeStep == 25
\* directors = director_list[:3], actors = actor_list[:5]
MaxDirectors == 3
MaxActors == 5

\* ------------------------------------------------------------ text helpers
DigitChars == <<"0", "1", "2", "3", "4", "5", "6", "7", "8", "9">>

IsDigit(c) == \E i \in 1..10 : DigitChars[i] = c

DigitVal(c) == (CHOOSE i \in 1..10 : DigitChars[i] = c) - 1

\* str(n) for n >= 0
RECURSIVE IntToText(_)
IntToText(n) ==
    IF n < 10 THEN <<DigitChars[n + 1]>>
    ELSE IntToText(n \div 10) \o <<DigitChars[(n % 10) + 1]>>

\* the value of a text of decimal digits
RECURSIVE DigitsToInt(_)
DigitsToInt(t) ==
    IF t = <<>> THEN 0
    ELSE DigitsToInt(SubSeq(t, 1, Len(t) - 1)) * 10 + DigitVal(t[Len(t)])

\* int(text) succeeds on a non-empty text of decimal digits
IsIntText(t) == t # <<>> /\ \A i \in 1..Len(t) : IsDigit(t[i])

\* ---------------------------------------------------------- Python values
PyNone == [ty |-> "NoneType"]
PyStr(t) == [ty |-> "str", v |-> t]
PyInt(n) == [ty |-> "int", v |-> n]
\* a float with one decimal, held in tenths: 9.7 is PyFloat(97)
PyFloat(tenths) == [ty |-> "float", v |-> tenths]
PyBool(b) == [ty |-> "bool", v |-> b]
PyList(s) == [ty |-> "list", v |-> s]

\* the 14 fields of the dataclass, in declaration order
MovieFields ==
    <<"rank", "title", "original_title", "year", "country", "genres",
      "rating", "votes", "quote", "detail_url", "poster_url", "is_playable",
      "directors", "actors">>

\* Movie.__post_init__: a None directors/actors becomes a fresh empty list
PostInit(m) ==
    [m EXCEPT !.directors = IF @ = PyNone THEN PyList(<<>>) ELSE @,
              !.actors = IF @ = PyNone THEN PyList(<<>>) ELSE @]

\* Movie(**kwargs): the generated __init__ stores the fields, then __post_init__
Movie(kw) == PostInit(kw)

\* -------------------------------------------------------------- cache store
\* dataclasses.asdict: a dict of the 14 fields, lists copied element by element
asdict(m) == [f \in {MovieFields[i] : i \in 1..Len(MovieFields)} |-> m[f]]

\* an escaping that forgets the backslash
RECURSIVE JsonEscape_QuoteOnly(_)
JsonEscape_QuoteOnly(t) ==
    IF t = <<>> THEN <<>>
    ELSE (IF Head(t) = "\"" THEN <<"\\", Head(t)>> ELSE <<Head(t)>>)
         \o JsonEscape_QuoteOnly(Tail(t))

\* json string escaping with ensure_ascii=False: only the quote and the
\* backslash of the modelled alphabet are escaped
RECURSIVE JsonEscape(_)
JsonEscape(t) ==
    IF t = <<>> THEN <<>>
    ELSE (IF Head(t) \in {"\"", "\\"} THEN <<"\\", Head(t)>> ELSE <<Head(t)>>)
         \o JsonEscape(Tail(t))

\* the scanner of json.loads: a backslash takes the next character literally
RECURSIVE JsonUnescape(_)
JsonUnescape(t) ==
    IF t = <<>> THEN <<>>
    ELSE IF Head(t) = "\\" /\ Len(t) > 1
         THEN <<t[2]>> \o JsonUnescape(SubSeq(t, 3, Len(t)))
         ELSE <<Head(t)>> \o JsonUnescape(Tail(t))

JNull == [j |-> "null"]
JString(t) == [j |-> "string", v |-> t]
\* a number token keeps its literal text: "7" or "9.7"
JNumber(t) == [j |-> "number", v |-> t]
JBoolean(b) == [j |-> "boolean", v |-> b]
JArray(s) == [j |-> "array", v |-> s]

\* float.__repr__ of a float held in tenths
FloatRepr(tenths) == IntToText(tenths \div 10) \o <<".">> \o IntToText(tenths % 10)

\* json.dumps of one Python value
RECURSIVE JsonDumps(_)
JsonDumps(x) ==
    CASE x.ty = "NoneType" -> JNull
      [] x.ty = "str" -> JString(JsonEscape(x.v))
      [] x.ty = "int" -> JNumber(IntToText(x.v))
      [] x.ty = "float" -> JNumber(FloatRepr(x.v))
      [] x.ty = "bool" -> JBoolean(x.v)
      [] x.ty = "list" -> JArray([i \in 1..Len(x.v) |-> JsonDumps(x.v[i])])

IndexOf(t, c) == CHOOSE i \in 1..Len(t) : t[i] = c /\ \A k \in 1..(i - 1) : t[k] # c

HasChar(t, c) == \E i \in 1..Len(t) : t[i] = c

\* json.loads of a number token: a literal with a fraction is a float
ParseNumber(t) ==
    IF HasChar(t, ".")
    THEN PyFloat(DigitsToInt(SubSeq(t, 1, IndexOf(t, ".") - 1)) * 10
                 + DigitsToInt(SubSeq(t, IndexOf(t, ".") + 1, Len(t))))
    ELSE PyInt(DigitsToInt(t))

\* json.loads of one token
RECURSIVE JsonLoads(_)
JsonLoads(tok) ==
    CASE tok.j = "null" -> PyNone
      [] tok.j = "string" -> PyStr(JsonUnescape(tok.v))
      [] tok.j = "number" -> ParseNumber(tok.v)
      [] tok.j = "boolean" -> PyBool(tok.v)
      [] tok.j = "array" -> PyList([i \in 1..Len(tok.v) |-> JsonLoads(tok.v[i])])

\* the cache path holds no file
NoFile == [file |-> "absent"]

\* _write_cache: the text written to cache_path, a JSON array of one object
\* per record
WriteCacheDoc(ms) ==
    [file |-> "json",
     doc |-> [i \in 1..Len(ms) |->
                [f \in DOMAIN asdict(ms[i]) |-> JsonDumps(asdict(ms[i])[f])]]]

\* _load_from_cache: json.loads of the file, then Movie(**movie_dict) per object
LoadFromCache(c) ==
    [i \in 1..Len(c.doc) |->
        Movie([f \in DOMAIN c.doc[i] |-> JsonLoads(c.doc[i][f])])]

\* Path.write_text opens the file with mode "w", which creates it or cuts it
\* to length 0, and only then writes: until the file is closed it holds the
\* beginning of the text. Cut(doc) is a file that holds the text of the
\* objects of doc and not yet the end of the array
Cut(doc) == [file |-> "cut", doc |-> doc]

\* what _load_from_cache does with the file it finds: read_text raises
\* FileNotFoundError when there is none, json.loads raises JSONDecodeError on
\* a text that stops early
LoadOutcome(c) ==
    IF c = NoFile THEN [exc |-> "FileNotFoundError"]
    ELSE IF c.file = "cut" THEN [exc |-> "JSONDecodeError"]
    ELSE [exc |-> "none", value |-> LoadFromCache(c)]

\* a pandas table, held as its rows
DataFrame(rows) == [ty |-> "DataFrame", rows |-> rows]

\* load_cached_movies: the explicit existence test, pd.read_json (ValueError
\* on a text that stops early), then a genres cell that is no list becomes [];
\* the columns derived from genres and year are left out
load_cached_movies(c) ==
    IF c = NoFile THEN [exc |-> "FileNotFoundError"]
    ELSE IF c.file = "cut" THEN [exc |-> "ValueError"]
    ELSE [exc |-> "none",
          value |-> DataFrame(
              [i \in 1..Len(c.doc) |->
                  LET row == [f \in DOMAIN c.doc[i] |-> JsonLoads(c.doc[i][f])]
                  IN  [row EXCEPT !.genres = IF @.ty = "list" THEN @ ELSE PyList(<<>>)]])]

\* ------------------------------------------------------- more text helpers
\* characters str.strip() removes; "~" stands for the no-break space \xa0
Whitespace == {" ", "~"}

RECURSIVE LStripSet(_, _)
LStripSet(t, cs) ==
    IF t # <<>> /\ Head(t) \in cs THEN LStripSet(Tail(t), cs) ELSE t

RECURSIVE RStripSet(_, _)
RStripSet(t, cs) ==
    IF t # <<>> /\ t[Len(t)] \in cs THEN RStripSet(SubSeq(t, 1, Len(t) - 1), cs) ELSE t

\* str.strip()
Strip(t) == RStripSet(LStripSet(t, Whitespace), Whitespace)

\* 0, or the first position from i on at which sep occurs in t
RECURSIVE FindFrom(_, _, _)
FindFrom(t, sep, i) ==
    IF i + Len(sep) - 1 > Len(t) THEN 0
    ELSE IF SubSeq(t, i, i + Len(sep) - 1) = sep THEN i
    ELSE FindFrom(t, sep, i + 1)

\* 0, or the first position at which sep occurs in t (sep non-empty)
FindSub(t, sep) == FindFrom(t, sep, 1)

\* sep in t
Contains(t, sep) == FindSub(t, sep) # 0

\* t.split(sep): the pieces between the occurrences of sep, empty ones kept
RECURSIVE Split(_, _)
Split(t, sep) ==
    LET at == FindSub(t, sep)
    IN  IF at = 0 THEN <<t>>
        ELSE <<SubSeq(t, 1, at - 1)>> \o Split(SubSeq(t, at + Len(sep), Len(t)), sep)

\* [x.strip() for x in parts if x.strip()]
RECURSIVE StripNonEmpty(_)
StripNonEmpty(parts) ==
    IF parts = <<>> THEN <<>>
    ELSE LET x == Strip(Head(parts))
         IN  (IF x # <<>> THEN <<x>> ELSE <<>>) \o StripNonEmpty(Tail(parts))

\* t.replace(old, new) for a one-character old
ReplaceChar(t, old, new) == [i \in 1..Len(t) |-> IF t[i] = old THEN new ELSE t[i]]

\* seq[:n]
Take(s, n) == SubSeq(s, 1, IF Len(s) < n THEN Len(s) ELSE n)

RECURSIVE ConcatAll(_)
ConcatAll(ss) == IF ss = <<>> THEN <<>> ELSE Head(ss) \o ConcatAll(Tail(ss))

\* the digit characters of t, in order
RECURSIVE OnlyDigits(_)
OnlyDigits(t) ==
    IF t = <<>> THEN <<>>
    ELSE (IF IsDigit(Head(t)) THEN <<Head(t)>> ELSE <<>>) \o OnlyDigits(Tail(t))

\* _safe_int: int(value), or None when int() raises
_safe_int(value) == IF IsIntText(value) THEN PyInt(DigitsToInt(value)) ELSE PyNone

\* _extract_vote_count
_extract_vote_count(value) ==
    LET digits == OnlyDigits(value)
    IN  IF digits # <<>> THEN DigitsToInt(digits) ELSE 0

\* float(text) succeeds on digits with an optional one-digit fraction (the
\* rating texts of the model have at most one decimal)
IsFloatText(t) ==
    IF HasChar(t, ".")
    THEN /\ IsIntText(SubSeq(t, 1, IndexOf(t, ".") - 1))
         /\ Len(t) = IndexOf(t, ".") + 1
         /\ IsDigit(t[Len(t)])
    ELSE IsIntText(t)

FloatOfText(t) ==
    IF HasChar(t, ".")
    THEN DigitsToInt(SubSeq(t, 1, IndexOf(t, ".") - 1)) * 10 + DigitVal(t[Len(t)])
    ELSE DigitsToInt(t) * 10

\* the textual markers _parse_movie looks for, one token per Chinese
\* character: "dao" "yan" ":" is the director marker, "zhu" "yan" ":" the
\* starring marker, "ren" "ping" "jia" the vote-count marker
DirectorMark == <<"dao", "yan", ":">>
StarringMark == <<"zhu", "yan", ":">>
BrMark == <<"<", "b", "r">>
VoteMarkLong == <<"ren", "ping", "jia">>
VoteMarkShort == <<"ping", "jia">>

\* ------------------------------------------------------- field extraction
\* An item fragment li is the record of what the BeautifulSoup lookups of
\* _parse_movie find in it, every text as get_text(strip=True) returns it:
\*   em, other, rating_num, inq : PyNone or PyStr(text)     (first such tag)
\*   titles                     : sequence of texts         (span.title)
\*   a_href, img_src            : PyNone (no tag or no attribute) or PyStr
\*   playable                   : BOOLEAN                   (span.playable)
\*   p                          : PyNone or PyList(the text chunks of <p>)
\*   bd, star                   : PyNone or PyList(the span texts of the div)

\* an extraction in which float(rating_text) is not guarded either
ParseRaises_OnRating(li) ==
    \/ li.em # PyNone /\ ~IsIntText(li.em.v)
    \/ li.rating_num # PyNone /\ ~IsFloatText(li.rating_num.v)

\* int(rank_tag.get_text(strip=True)) raises ValueError
ParseRaises(li) == li.em # PyNone /\ ~IsIntText(li.em.v)

ParseRank(li) == IF li.em # PyNone THEN DigitsToInt(li.em.v) ELSE 0

ParseTitle(li) == IF li.titles # <<>> THEN li.titles[1] ELSE <<>>

SecondTitle(li) == Strip(LStripSet(li.titles[2], {"/"}))

OtherText(li) == Strip(LStripSet(li.other.v, {"/"}))

\* an "other" span that is looked at only when there is no second title span
ParseOriginalTitle_OnlyWithoutSecond(li) ==
    IF Len(li.titles) > 1
    THEN IF SecondTitle(li) # <<>> THEN PyStr(SecondTitle(li)) ELSE PyNone
    ELSE IF li.other # PyNone /\ OtherText(li) # <<>>
         THEN PyStr(Strip(Split(OtherText(li), <<"/">>)[1]))
         ELSE PyNone

ParseOriginalTitle(li) ==
    LET fromTitles == IF Len(li.titles) > 1 /\ SecondTitle(li) # <<>>
                      THEN PyStr(SecondTitle(li)) ELSE PyNone
        other_text == OtherText(li)
    IN  IF li.other # PyNone /\ fromTitles = PyNone /\ other_text # <<>>
        THEN IF Contains(other_text, <<"/">>)
             THEN PyStr(Strip(Split(other_text, <<"/">>)[1]))
             ELSE PyStr(other_text)
        ELSE fromTitles

\* info_block.get_text(strip=True)
InfoText(li) == ConcatAll(li.p.v)

\* a director list that is not cut to its first three names
ParseDirectors_NoCap(li) ==
    IF li.p # PyNone /\ Contains(InfoText(li), DirectorMark)
    THEN StripNonEmpty(Split(Split(InfoText(li), StarringMark)[1], <<"/">>))
    ELSE <<>>

ParseDirectors(li) ==
    IF li.p # PyNone /\ Contains(InfoText(li), DirectorMark)
    THEN LET info_text == InfoText(li)
             director_part == IF Contains(info_text, StarringMark)
                              THEN Split(info_text, StarringMark)[1]
                              ELSE info_text
         IN  IF Contains(director_part, DirectorMark)
             THEN Take(StripNonEmpty(
                          Split(Strip(Split(director_part, DirectorMark)[2]), <<"/">>)),
                       MaxDirectors)
             ELSE <<>>
    ELSE <<>>

ParseActors(li) ==
    IF li.p # PyNone /\ Contains(InfoText(li), StarringMark)
    THEN LET actors_part == Split(InfoText(li), StarringMark)[2]
             actors_text == IF Contains(actors_part, BrMark)
                            THEN Split(actors_part, BrMark)[1]
                            ELSE actors_part
         IN  Take(StripNonEmpty(Split(actors_text, <<"/">>)), MaxActors)
    ELSE <<>>

\* the parts of the last non-empty line of the info paragraph
MetadataParts(li) ==
    IF li.p = PyNone \/ StripNonEmpty(li.p.v) = <<>> THEN <<>>
    ELSE LET info_lines == StripNonEmpty(li.p.v)
             metadata_line == ReplaceChar(info_lines[Len(info_lines)], "~", " ")
         IN  StripNonEmpty(Split(metadata_line, <<"/">>))

ParseYear(parts) == IF parts # <<>> THEN _safe_int(parts[1]) ELSE PyNone

ParseCountry(parts) == IF Len(parts) > 1 THEN PyStr(parts[2]) ELSE PyNone

ParseGenres(parts) == IF Len(parts) > 2 THEN SubSeq(parts, 3, Len(parts)) ELSE <<>>

ParseRating(li) ==
    IF li.rating_num # PyNone /\ IsFloatText(li.rating_num.v)
    THEN FloatOfText(li.rating_num.v)
    ELSE 0

IsVoteSpan(t) == Contains(t, VoteMarkLong) \/ Contains(t, VoteMarkShort)

ParseVotes(li) ==
    LET fromBd ==
            IF li.bd # PyNone /\ \E i \in 1..Len(li.bd.v) : IsVoteSpan(li.bd.v[i])
            THEN _extract_vote_count(
                    li.bd.v[CHOOSE i \in 1..Len(li.bd.v) :
                               /\ IsVoteSpan(li.bd.v[i])
                               /\ \A k \in 1..(i - 1) : ~IsVoteSpan(li.bd.v[k])])
            ELSE 0
    IN  IF fromBd = 0 /\ li.star # PyNone /\ li.star.v # <<>>
        THEN _extract_vote_count(li.star.v[Len(li.star.v)])
        ELSE fromBd

\* _parse_movie, for a fragment on which it does not raise
_parse_movie(li) ==
    LET parts == MetadataParts(li)
        genres == ParseGenres(parts)
        directors == ParseDirectors(li)
        actors == ParseActors(li)
    IN  Movie([rank |-> PyInt(ParseRank(li)),
               title |-> PyStr(ParseTitle(li)),
               original_title |-> ParseOriginalTitle(li),
               year |-> ParseYear(parts),
               country |-> ParseCountry(parts),
               genres |-> PyList([i \in 1..Len(genres) |-> PyStr(genres[i])]),
               rating |-> PyFloat(ParseRating(li)),
               votes |-> PyInt(ParseVotes(li)),
               quote |-> li.inq,
               detail_url |-> IF li.a_href # PyNone THEN li.a_href ELSE PyStr(<<>>),
               poster_url |-> li.img_src,
               is_playable |-> PyBool(li.playable),
               directors |-> PyList([i \in 1..Len(directors) |-> PyStr(directors[i])]),
               actors |-> PyList([i \in 1..Len(actors) |-> PyStr(actors[i])])])

\* a loop that stops at the first fragment whose extraction raises
RECURSIVE ParseItems_StopsAtFirstFailure(_)
ParseItems_StopsAtFirstFailure(lis) ==
    IF lis = <<>> \/ ParseRaises(Head(lis)) THEN <<>>
    ELSE <<_parse_movie(Head(lis))>> \o ParseItems_StopsAtFirstFailure(Tail(lis))

\* the item loop of _fetch_page: a fragment whose extraction raises is
\* skipped, the others are appended in order
RECURSIVE ParseItems(_)
ParseItems(lis) ==
    IF lis = <<>> THEN <<>>
    ELSE (IF ParseRaises(Head(lis)) THEN <<>> ELSE <<_parse_movie(Head(lis))>>)
         \o ParseItems(Tail(lis))

\* ------------------------------------------------------- the served pages
\* how an item fragment of a served page can look: well-formed, or with a
\* rank text that is no numeral (int() raises on it); Fragment also builds
\* the "norank" fragment, which has no <em> tag at all
ItemKinds == {"ok", "badrank"}

\* the fragment of item number n (1-based position in the whole list): an
\* odd item has two title spans, a poster, a tagline, credits (four
\* directors, and seven names after the starring marker) and a vote span in
\* the ratings block; an even one has an "other titles" span, a bare
\* year line and its votes in the star block only
Fragment(n, kind) ==
    [em |-> CASE kind = "ok" -> PyStr(IntToText(n))
              [] kind = "norank" -> PyNone
              [] kind = "badrank" -> PyStr(<<"#">> \o IntToText(n)),
     titles |-> IF n % 2 = 1 THEN << <<"T">> \o IntToText(n), <<"/", "~", "E">> >>
                ELSE << <<"T">> \o IntToText(n) >>,
     other |-> IF n % 2 = 1 THEN PyNone ELSE PyStr(<<"/", "~", "A", " ", "/", "B">>),
     a_href |-> PyStr(<<"u">> \o IntToText(n)),
     img_src |-> IF n % 2 = 1 THEN PyStr(<<"i", "\\">>) ELSE PyNone,
     playable |-> (n % 2 = 1),
     p |-> IF n % 2 = 1
           THEN PyList(<< DirectorMark \o <<"F", "/", "G", "/", "F", "/", "G", "~">>
                           \o StarringMark \o <<"H", "/", "I", "/", "H", "/", "I", "/", "H">>,
                          <<"1", "9", "9", "4", "~", "/", "~", "U", "~", "/", "~", "c", " ", "d">> >>)
           ELSE PyList(<< <<"1", "9", "9", "4">> >>),
     rating_num |-> IF n % 2 = 1 THEN PyStr(<<"9", ".", "7">>) ELSE PyNone,
     bd |-> IF n % 2 = 1 THEN PyList(<< <<"9", ".", "7">>, IntToText(n) \o VoteMarkLong >>)
            ELSE PyNone,
     star |-> IF n % 2 = 1 THEN PyNone ELSE PyList(<< IntToText(n) \o VoteMarkLong >>),
     inq |-> IF n % 2 = 1 THEN PyStr(<<"\"", "q">>) ELSE PyNone]

\* a served page holds MaxItems items; its shape is their kinds in page order
PageShapes == [1..MaxItems -> ItemKinds]

\* the page an offset normally serves: every item well-formed
FullPage == [i \in 1..MaxItems |-> "ok"]

\* the offsets at which the site may serve a page with malformed items: the
\* first page, a middle page and the last page
OddOffsets == {0, 100, 225}

\* the <li> fragments of the page at offset start with the given shape
PageItems(start, shape) == [i \in 1..Len(shape) |-> Fragment(start + i, shape[i])]

\* --------------------------------------------------------------- the state
VARIABLES
    use_cache,      \* self.use_cache
    cache,          \* the file at self.cache_path: NoFile, a JSON document, or
                    \* the beginning of one (Cut)
    pc,             \* where the current fetch_movies call (in SpecStore the
                    \* _write_cache call, in SpecParse the item loop) stands
    force_refresh,  \* the argument of the current call
    start,          \* the loop variable of fetch_movies
    movies,         \* the list fetch_movies accumulates
    page_movies,    \* what the last _fetch_page returned
    result,         \* what the call returned, NoResult until it returns
    error,          \* the exception the call raised, "none" otherwise
    log,            \* the requests, delays, cache reads and writes of the call
    inflight,       \* offsets of the requests sent and not yet answered
    served,         \* the shapes of the pages answered in this call, in order
    cache0,         \* the cache file when the current call started
    prev,           \* summary of the call before the current one
    calls,          \* calls made so far
    odd,            \* pages served so far that were not FullPage
    cur_li,         \* the <li> fragment handed to the item loop of _fetch_page
    parsed,         \* what the item loop made of cur_li, NoResult before it ran
    ld              \* the frame of load_data: position, argument, return value

vars == <<use_cache, cache, pc, force_refresh, start, movies, page_movies, result,
          error, log, inflight, served, cache0, prev, calls, odd, cur_li, parsed, ld>>

\* the variables of the item loop run alone and of load_data
appvars == <<cur_li, parsed, ld>>

NoResult == [ty |-> "no result"]
NoCall == [made |-> FALSE]
NoFragment == [ty |-> "no fragment"]
\* load_data is not on the stack
NoFrame == [pc |-> "out"]

\* a cache file left by an earlier run
OldMovies == ParseItems(<<Fragment(900, "ok"), Fragment(7, "norank")>>)
OldCache == WriteCacheDoc(OldMovies)

\* the condition of the first branch of fetch_movies, as the current call met it
CacheHit == use_cache /\ ~force_refresh /\ cache0 # NoFile

Init ==
    /\ use_cache \in BOOLEAN
    /\ cache \in {NoFile, OldCache}
    /\ pc = "idle"
    /\ force_refresh = FALSE
    /\ start = 0
    /\ movies = <<>>
    /\ page_movies = <<>>
    /\ result = NoResult
    /\ error = "none"
    /\ log = <<>>
    /\ inflight = {}
    /\ served = <<>>
    /\ cache0 = cache
    /\ prev = NoCall
    /\ calls = 0
    /\ odd = 0
    /\ cur_li = NoFragment
    /\ parsed = NoResult
    /\ ld = NoFrame

\* the condition of the first branch of fetch_movies
FirstBranch_ForceInverted(force) == use_cache /\ force /\ cache # NoFile

\* a first branch that does not look at force_refresh
FirstBranch_IgnoresForce(force) == use_cache /\ cache # NoFile

FirstBranch(force) == use_cache /\ ~force /\ cache # NoFile

\* range(0, 250, 25) is exhausted
LoopDone_OffByOne(s) == s >= RangeStop - RangeStep

LoopDone(s) == s >= RangeStop

\* movies.extend(page_movies)
Extend_Prepends(ms, page) == page \o ms

Extend(ms, page) == ms \o page

\* fetch_movies is entered: the first branch is decided
CallFetchMovies(force) ==
    /\ pc \in {"idle", "done", "raised"}
    /\ calls < MaxCalls
    /\ calls' = calls + 1
    /\ prev' = IF pc = "idle" THEN NoCall
               ELSE IF CacheHit /\ pc = "done"
               THEN [made |-> TRUE, hit |-> TRUE, result |-> result, cache0 |-> cache0]
               ELSE [made |-> TRUE, hit |-> FALSE]
    /\ force_refresh' = force
    /\ cache0' = cache
    /\ movies' = <<>>
    /\ page_movies' = <<>>
    /\ result' = NoResult
    /\ error' = "none"
    /\ log' = <<>>
    /\ served' = <<>>
    /\ start' = 0
    /\ pc' = IF FirstBranch(force) THEN "load" ELSE "loop"
    /\ UNCHANGED <<use_cache, cache, inflight, odd>>
    /\ UNCHANGED appvars

\* a load that saves the list back without its first record
LoadCache_Truncates ==
    /\ pc = "load"
    /\ log' = Append(log, [e |-> "read"])
    /\ result' = LoadFromCache(cache)
    /\ cache' = IF result' = <<>> THEN cache ELSE WriteCacheDoc(Tail(result'))
    /\ pc' = "done"
    /\ UNCHANGED <<use_cache, force_refresh, start, movies, page_movies, error,
                   inflight, served, cache0, prev, calls, odd>>
    /\ UNCHANGED appvars

\* return self._load_from_cache(); what it raises leaves fetch_movies
LoadCache ==
    /\ pc = "load"
    /\ log' = Append(log, [e |-> "read"])
    /\ LET out == LoadOutcome(cache)
       IN  IF out.exc = "none"
           THEN result' = out.value /\ pc' = "done" /\ error' = error
           ELSE result' = result /\ pc' = "raised" /\ error' = out.exc
    /\ UNCHANGED <<use_cache, cache, force_refresh, start, movies, page_movies,
                   inflight, served, cache0, prev, calls, odd>>
    /\ UNCHANGED appvars

\* _fetch_page(start=start) sends its request
SendRequest ==
    /\ pc = "loop"
    /\ ~LoopDone(start)
    /\ log' = Append(log, [e |-> "request", start |-> start])
    /\ inflight' = inflight \cup {start}
    /\ pc' = "await"
    /\ UNCHANGED <<use_cache, cache, force_refresh, start, movies, page_movies, result,
                   error, served, cache0, prev, calls, odd>>
    /\ UNCHANGED appvars

\* a failed request that is sent again
RequestFails_Retry(exc) ==
    /\ pc = "await"
    /\ Len(log) < 4 * (RangeStop \div RangeStep)
    /\ log' = Append(log, [e |-> "request", start |-> start])
    /\ UNCHANGED <<use_cache, cache, pc, force_refresh, start, movies, page_movies,
                   result, error, inflight, served, cache0, prev, calls, odd>>
    /\ UNCHANGED appvars

\* session.get raises (timeout, connection failure) or raise_for_status
\* raises on an error status: the exception leaves _fetch_page and fetch_movies
RequestFails(exc) ==
    /\ pc = "await"
    /\ inflight' = inflight \ {start}
    /\ error' = exc
    /\ pc' = "raised"
    /\ UNCHANGED <<use_cache, cache, force_refresh, start, movies, page_movies, result,
                   log, served, cache0, prev, calls, odd>>
    /\ UNCHANGED appvars

\* a missing container that saves the pages fetched so far before raising
NoContainer_SavesPartial ==
    /\ pc = "await"
    /\ inflight' = inflight \ {start}
    /\ error' = "ValueError"
    /\ cache' = IF use_cache THEN WriteCacheDoc(movies) ELSE cache
    /\ pc' = "raised"
    /\ UNCHANGED <<use_cache, force_refresh, start, movies, page_movies, result,
                   log, served, cache0, prev, calls, odd>>
    /\ UNCHANGED appvars

\* the answer has no <ol class="grid_view">: ValueError
NoContainer ==
    /\ pc = "await"
    /\ inflight' = inflight \ {start}
    /\ error' = "ValueError"
    /\ pc' = "raised"
    /\ UNCHANGED <<use_cache, cache, force_refresh, start, movies, page_movies, result,
                   log, served, cache0, prev, calls, odd>>
    /\ UNCHANGED appvars

\* the answer holds the list: the items are parsed, _fetch_page returns and
\* fetch_movies extends its list
PageArrives(shape) ==
    /\ pc = "await"
    /\ shape # FullPage => start \in OddOffsets /\ odd < MaxOddPages
    /\ odd' = IF shape # FullPage THEN odd + 1 ELSE odd
    /\ inflight' = inflight \ {start}
    /\ served' = Append(served, shape)
    /\ page_movies' = ParseItems(PageItems(start, shape))
    /\ movies' = Extend(movies, page_movies')
    /\ pc' = "delay"
    /\ UNCHANGED <<use_cache, cache, force_refresh, start, result, error, log, cache0,
                   prev, calls>>
    /\ UNCHANGED appvars

\* a loop that does not pace after the final page
RespectfulDelay_SkipFinal ==
    /\ pc = "delay"
    /\ log' = IF LoopDone(start + RangeStep) THEN log ELSE Append(log, [e |-> "delay"])
    /\ start' = start + RangeStep
    /\ pc' = "loop"
    /\ UNCHANGED <<use_cache, cache, force_refresh, movies, page_movies, result, error,
                   inflight, served, cache0, prev, calls, odd>>
    /\ UNCHANGED appvars

\* self._respectful_delay(), then the loop takes the next offset
RespectfulDelay ==
    /\ pc = "delay"
    /\ log' = Append(log, [e |-> "delay"])
    /\ start' = start + RangeStep
    /\ pc' = "loop"
    /\ UNCHANGED <<use_cache, cache, force_refresh, movies, page_movies, result, error,
                   inflight, served, cache0, prev, calls, odd>>
    /\ UNCHANGED appvars

\* a pass that writes the cache only when there is none yet
FinishPass_KeepsOld ==
    /\ pc = "loop"
    /\ LoopDone(start)
    /\ cache' = IF use_cache /\ cache = NoFile THEN WriteCacheDoc(movies) ELSE cache
    /\ log' = IF use_cache /\ cache = NoFile THEN Append(log, [e |-> "write"]) ELSE log
    /\ result' = movies
    /\ pc' = "done"
    /\ UNCHANGED <<use_cache, force_refresh, start, movies, page_movies, error, inflight,
                   served, cache0, prev, calls, odd>>
    /\ UNCHANGED appvars

\* a pass that writes the cache whether caching is enabled or not
FinishPass_AlwaysWrites ==
    /\ pc = "loop"
    /\ LoopDone(start)
    /\ cache' = WriteCacheDoc(movies)
    /\ log' = Append(log, [e |-> "write"])
    /\ result' = movies
    /\ pc' = "done"
    /\ UNCHANGED <<use_cache, force_refresh, start, movies, page_movies, error, inflight,
                   served, cache0, prev, calls, odd>>
    /\ UNCHANGED appvars

\* the loop is over: the cache is written if caching is enabled, and the
\* list is returned
FinishPass ==
    /\ pc = "loop"
    /\ LoopDone(start)
    /\ cache' = IF use_cache THEN WriteCacheDoc(movies) ELSE cache
    /\ log' = IF use_cache THEN Append(log, [e |-> "write"]) ELSE log
    /\ result' = movies
    /\ pc' = "done"
    /\ UNCHANGED <<use_cache, force_refresh, start, movies, page_movies, error, inflight,
                   served, cache0, prev, calls, odd>>
    /\ UNCHANGED appvars

Next ==
    \/ \E force \in BOOLEAN : CallFetchMovies(force)
    \/ LoadCache
    \/ SendRequest
    \/ \E exc \in {"ConnectionError", "HTTPError"} : RequestFails(exc)
    \/ NoContainer
    \/ \E shape \in PageShapes : PageArrives(shape)
    \/ RespectfulDelay
    \/ FinishPass

Spec == Init /\ [][Next]_vars

TypeOK ==
    /\ pc \in {"idle", "load", "loop", "await", "delay", "done", "raised"}
    /\ start \in 0..RangeStop
    /\ Cardinality(inflight) <= 1

\* ------------------------------------------- the cache round trip, alone
\* a record with every field populated
FullMovie ==
    Movie([rank |-> PyInt(17),
           title |-> PyStr(<<"T", " ", "\"", "x", "\"">>),
           original_title |-> PyStr(<<"E", "\\", "n">>),
           year |-> PyInt(1994),
           country |-> PyStr(<<"U", "S">>),
           genres |-> PyList(<<PyStr(<<"c", " ", "d">>), PyStr(<<"e">>)>>),
           rating |-> PyFloat(97),
           votes |-> PyInt(1234567),
           quote |-> PyStr(<<"q", "\\", "\"">>),
           detail_url |-> PyStr(<<"u", "/", "1">>),
           poster_url |-> PyStr(<<"i", ".", "j">>),
           is_playable |-> PyBool(TRUE),
           directors |-> PyList(<<PyStr(<<"F">>), PyStr(<<"G">>)>>),
           actors |-> PyList(<<PyStr(<<"H">>), PyStr(<<"I">>), PyStr(<<"\\">>)>>)])

\* a record with every optional absent, every list empty, every default;
\* directors and actors are left to __post_init__
BareMovie ==
    Movie([rank |-> PyInt(0),
           title |-> PyStr(<<>>),
           original_title |-> PyNone,
           year |-> PyNone,
           country |-> PyNone,
           genres |-> PyList(<<>>),
           rating |-> PyFloat(0),
           votes |-> PyInt(0),
           quote |-> PyNone,
           detail_url |-> PyStr(<<>>),
           poster_url |-> PyNone,
           is_playable |-> PyBool(FALSE),
           directors |-> PyNone,
           actors |-> PyNone])

FieldNames == {MovieFields[i] : i \in 1..Len(MovieFields)}

\* the two records, and each of them with one field taken from the other
MovieUniverse ==
    {FullMovie, BareMovie}
    \cup {[FullMovie EXCEPT ![f] = BareMovie[f]] : f \in FieldNames}
    \cup {[BareMovie EXCEPT ![f] = FullMovie[f]] : f \in FieldNames}

RECURSIVE SeqsUpTo(_, _)
SeqsUpTo(S, n) ==
    IF n = 0 THEN {<<>>}
    ELSE SeqsUpTo(S, n - 1) \cup
         {Append(q, x) : q \in {r \in SeqsUpTo(S, n - 1) : Len(r) = n - 1}, x \in S}

InitRT ==
    /\ movies \in SeqsUpTo(MovieUniverse, MaxSeqLen)
    /\ pc = "rt_write"
    /\ cache = NoFile
    /\ use_cache = TRUE
    /\ force_refresh = FALSE
    /\ start = 0
    /\ page_movies = <<>>
    /\ result = NoResult
    /\ error = "none"
    /\ log = <<>>
    /\ inflight = {}
    /\ served = <<>>
    /\ cache0 = NoFile
    /\ prev = NoCall
    /\ calls = 0
    /\ odd = 0
    /\ cur_li = NoFragment
    /\ parsed = NoResult
    /\ ld = NoFrame

\* self._write_cache(movies)
RTWrite ==
    /\ pc = "rt_write"
    /\ cache' = WriteCacheDoc(movies)
    /\ log' = Append(log, [e |-> "write"])
    /\ pc' = "rt_load"
    /\ UNCHANGED <<use_cache, force_refresh, start, movies, page_movies, result, error,
                   inflight, served, cache0, prev, calls, odd>>
    /\ UNCHANGED appvars

\* self._load_from_cache()
RTLoad ==
    /\ pc = "rt_load"
    /\ result' = LoadFromCache(cache)
    /\ log' = Append(log, [e |-> "read"])
    /\ pc' = "rt_done"
    /\ UNCHANGED <<use_cache, cache, force_refresh, start, movies, page_movies, error,
                   inflight, served, cache0, prev, calls, odd>>
    /\ UNCHANGED appvars

NextRT == RTWrite \/ RTLoad

SpecRT == InitRT /\ [][NextRT]_vars

\* ------------------------------ the cache file, its writer and its readers
\* _write_cache(movies) runs in one process while other processes (the pages
\* of the application, another scraper) call the two readers of the file
StoreLists == SeqsUpTo({FullMovie, BareMovie}, MaxSeqLen)

InitStore ==
    /\ movies \in StoreLists
    /\ cache \in {NoFile, OldCache}
    /\ pc = "w_call"
    /\ use_cache = TRUE
    /\ force_refresh = FALSE
    /\ start = 0
    /\ page_movies = <<>>
    /\ result = NoResult
    /\ error = "none"
    /\ log = <<>>
    /\ inflight = {}
    /\ served = <<>>
    /\ cache0 = cache
    /\ prev = NoCall
    /\ calls = 0
    /\ odd = 0
    /\ cur_li = NoFragment
    /\ parsed = NoResult
    /\ ld = NoFrame

\* write_text opens cache_path with mode "w": the file is created, or cut to
\* length 0 when it exists
WriteOpen ==
    /\ pc = "w_call"
    /\ cache' = Cut(<<>>)
    /\ pc' = "w_open"
    /\ UNCHANGED <<use_cache, force_refresh, start, movies, page_movies, result, error,
                   log, inflight, served, cache0, prev, calls, odd>>
    /\ UNCHANGED appvars

\* the buffer of the open file is flushed: the text of one more object
\* reaches the file
WriteFlush ==
    /\ pc = "w_open"
    /\ Len(cache.doc) < Len(movies)
    /\ cache' = Cut(SubSeq(WriteCacheDoc(movies).doc, 1, Len(cache.doc) + 1))
    /\ UNCHANGED <<use_cache, pc, force_refresh, start, movies, page_movies, result,
                   error, log, inflight, served, cache0, prev, calls, odd>>
    /\ UNCHANGED appvars

\* the rest of the text is written and the file is closed
WriteClose ==
    /\ pc = "w_open"
    /\ cache' = WriteCacheDoc(movies)
    /\ pc' = "w_done"
    /\ UNCHANGED <<use_cache, force_refresh, start, movies, page_movies, result, error,
                   log, inflight, served, cache0, prev, calls, odd>>
    /\ UNCHANGED appvars

\* the writing process is killed, or a write raises OSError (disk full): the
\* file keeps what had reached it
WriteInterrupted ==
    /\ pc = "w_open"
    /\ pc' = "w_dead"
    /\ UNCHANGED <<use_cache, cache, force_refresh, start, movies, page_movies, result,
                   error, log, inflight, served, cache0, prev, calls, odd>>
    /\ UNCHANGED appvars

\* a reader that opens the file for update, creating it when it is missing
ReadCache_CreatesFile ==
    /\ calls < MaxCalls
    /\ calls' = calls + 1
    /\ log' = Append(log, [e |-> "read"])
    /\ cache' = IF cache = NoFile THEN Cut(<<>>) ELSE cache
    /\ LET out == LoadOutcome(cache)
       IN  /\ error' = out.exc
           /\ result' = IF out.exc = "none" THEN out.value ELSE NoResult
    /\ UNCHANGED <<use_cache, pc, force_refresh, start, movies, page_movies,
                   inflight, served, cache0, prev, odd>>
    /\ UNCHANGED appvars

\* a reader calls _load_from_cache()
ReadCache ==
    /\ calls < MaxCalls
    /\ calls' = calls + 1
    /\ log' = Append(log, [e |-> "read"])
    /\ LET out == LoadOutcome(cache)
       IN  /\ error' = out.exc
           /\ result' = IF out.exc = "none" THEN out.value ELSE NoResult
    /\ UNCHANGED <<use_cache, cache, pc, force_refresh, start, movies, page_movies,
                   inflight, served, cache0, prev, odd>>
    /\ UNCHANGED appvars

\* a reader calls load_cached_movies(cache_path)
ReadTable ==
    /\ calls < MaxCalls
    /\ calls' = calls + 1
    /\ log' = Append(log, [e |-> "read"])
    /\ LET out == load_cached_movies(cache)
       IN  /\ error' = out.exc
           /\ result' = IF out.exc = "none" THEN out.value ELSE NoResult
    /\ UNCHANGED <<use_cache, cache, pc, force_refresh, start, movies, page_movies,
                   inflight, served, cache0, prev, odd>>
    /\ UNCHANGED appvars

NextStore ==
    \/ WriteOpen
    \/ WriteFlush
    \/ WriteClose
    \/ WriteInterrupted
    \/ ReadCache
    \/ ReadTable

SpecStore == InitStore /\ [][NextStore]_vars

\* --------------------------------------------- the item loop, run alone
\* what the lookups of _parse_movie can find in one <li>: every field that
\* the extraction treats by cases takes each of its cases
EmTexts == {PyNone, PyStr(<<"7">>), PyStr(<<"#", "7">>)}

\* no title span, one, two, and two with a second that is only a separator
TitleSpans ==
    {<<>>,
     << <<"T">> >>,
     << <<"T">>, <<"/", "~", "E">> >>,
     << <<"T">>, <<"/", "~">> >>}

\* no "other" span; two alternates; one; a lone separator; a text that still
\* starts with a separator once the leading slashes and blanks are removed
OtherSpans ==
    {PyNone,
     PyStr(<<"/", "~", "A", " ", "/", "B">>),
     PyStr(<<"A">>),
     PyStr(<<"/">>),
     PyStr(<<"/", "~", "/", "B">>)}

RatingTexts == {PyNone, PyStr(<<"9", ".", "7">>), PyStr(<<"x">>), PyStr(<<>>)}

\* the spans of div.bd: no div; a vote span; a marker without digits; no
\* marker; a marker without digits before a vote span
BdSpans ==
    {PyNone,
     PyList(<< <<"9", ".", "7">>, <<"1", "2">> \o VoteMarkLong >>),
     PyList(<< VoteMarkShort >>),
     PyList(<< <<"9", ".", "7">> >>),
     PyList(<< VoteMarkShort, <<"3", "4">> \o VoteMarkLong >>)}

\* the spans of div.star: no div; no span; digits last; no digits last
StarSpans ==
    {PyNone,
     PyList(<<>>),
     PyList(<< <<"9">>, <<"5", "6">> >>),
     PyList(<< <<"5", "6">>, <<"x">> >>)}

\* the info paragraph: none; two directors; four directors and more than
\* five names after the starring marker
InfoParagraphs ==
    {PyNone,
     PyList(<< DirectorMark \o <<" ", "F", "/", "G", "~", "~">> \o StarringMark \o <<" ", "H">>,
               <<"1", "9", "9", "4", "~", "/", "~", "U", "~", "/", "~", "c">> >>),
     PyList(<< DirectorMark \o <<"F", "/", "G", "/", "F", "/", "G", "~">>
                 \o StarringMark \o <<"H", "/", "I", "/", "H", "/", "I", "/", "H">>,
               <<"1", "9", "9", "4", "~", "/", "~", "U", "~", "/", "~", "c">> >>)}

ParseInputs ==
    {[Fragment(7, "ok") EXCEPT !.em = e, !.titles = t, !.other = o, !.rating_num = r,
                               !.bd = b, !.star = st, !.p = info] :
        e \in EmTexts, t \in TitleSpans, o \in OtherSpans, r \in RatingTexts,
        b \in BdSpans, st \in StarSpans, info \in InfoParagraphs}

InitParse ==
    /\ cur_li \in ParseInputs
    /\ parsed = NoResult
    /\ pc = "p_call"
    /\ use_cache = FALSE
    /\ cache = NoFile
    /\ force_refresh = FALSE
    /\ start = 0
    /\ movies = <<>>
    /\ page_movies = <<>>
    /\ result = NoResult
    /\ error = "none"
    /\ log = <<>>
    /\ inflight = {}
    /\ served = <<>>
    /\ cache0 = NoFile
    /\ prev = NoCall
    /\ calls = 0
    /\ odd = 0
    /\ ld = NoFrame

\* the body of the item loop of _fetch_page on a container that holds cur_li
ParseOne ==
    /\ pc = "p_call"
    /\ parsed' = ParseItems(<<cur_li>>)
    /\ pc' = "p_done"
    /\ UNCHANGED <<use_cache, cache, force_refresh, start, movies, page_movies, result,
                   error, log, inflight, served, cache0, prev, calls, odd, cur_li, ld>>

NextParse == ParseOne

SpecParse == InitParse /\ [][NextParse]_vars

\* ----------------------------------------------------------- load_data
\* the two labels load_data returns beside the table: "从缓存加载" and "新爬取"
FromCacheLabel == "loaded from cache"
NewlyScrapedLabel == "newly scraped"

\* the columns movies_to_dataframe copies from each record
TableColumns ==
    {"rank", "title", "original_title", "year", "country", "genres", "rating",
     "votes", "quote", "detail_url"}

\* movies_to_dataframe: one row per record; the columns derived from year
\* and genres are left out
movies_to_dataframe(ms) ==
    DataFrame([i \in 1..Len(ms) |-> [f \in TableColumns |-> ms[i][f]]])

\* a cache file whose text stops early: what an interrupted _write_cache of
\* OldMovies leaves, after nothing or after the first object
CutCaches == {Cut(<<>>), Cut(SubSeq(OldCache.doc, 1, 1))}

\* the application starts with SCRAPER_CONFIG (use_cache is True) and any of
\* the files an earlier run can have left
InitApp ==
    /\ use_cache = TRUE
    /\ cache \in {NoFile, OldCache} \cup CutCaches
    /\ pc = "idle"
    /\ force_refresh = FALSE
    /\ start = 0
    /\ movies = <<>>
    /\ page_movies = <<>>
    /\ result = NoResult
    /\ error = "none"
    /\ log = <<>>
    /\ inflight = {}
    /\ served = <<>>
    /\ cache0 = cache
    /\ prev = NoCall
    /\ calls = 0
    /\ odd = 0
    /\ cur_li = NoFragment
    /\ parsed = NoResult
    /\ ld = NoFrame

\* load_data(force_refresh) up to the scraping part: with a cache file and
\* no force_refresh the table is loaded and returned; when that raises, the
\* exception is caught, a warning is shown and the function goes on
CallLoadData(force) ==
    /\ ld = NoFrame
    /\ pc = "idle"
    /\ LET out == load_cached_movies(cache)
       IN  ld' = IF cache # NoFile /\ ~force
                 THEN IF out.exc = "none"
                      THEN [pc |-> "returned", force |-> force, warned |-> FALSE,
                            df |-> out.value, label |-> FromCacheLabel]
                      ELSE [pc |-> "scrape", force |-> force, warned |-> TRUE,
                            df |-> NoResult, label |-> "none"]
                 ELSE [pc |-> "scrape", force |-> force, warned |-> FALSE,
                       df |-> NoResult, label |-> "none"]
    /\ UNCHANGED <<use_cache, cache, pc, force_refresh, start, movies, page_movies,
                   result, error, log, inflight, served, cache0, prev, calls, odd,
                   cur_li, parsed>>

\* scraper.fetch_movies(force_refresh=force_refresh) is entered
LoadDataFetch ==
    /\ ld.pc = "scrape"
    /\ pc = "idle"
    /\ CallFetchMovies(ld.force)

\* fetch_movies returned: the list becomes a table, labelled newly scraped
LoadDataReturn ==
    /\ ld.pc = "scrape"
    /\ pc = "done"
    /\ ld' = [ld EXCEPT !.pc = "returned", !.df = movies_to_dataframe(result),
                        !.label = NewlyScrapedLabel]
    /\ UNCHANGED <<use_cache, cache, pc, force_refresh, start, movies, page_movies,
                   result, error, log, inflight, served, cache0, prev, calls, odd,
                   cur_li, parsed>>

\* fetch_movies raised: nothing in load_data catches it
LoadDataRaise ==
    /\ ld.pc = "scrape"
    /\ pc = "raised"
    /\ ld' = [ld EXCEPT !.pc = "raised"]
    /\ UNCHANGED <<use_cache, cache, pc, force_refresh, start, movies, page_movies,
                   result, error, log, inflight, served, cache0, prev, calls, odd,
                   cur_li, parsed>>

NextApp ==
    \/ \E force \in BOOLEAN : CallLoadData(force)
    \/ LoadDataFetch
    \/ LoadDataReturn
    \/ LoadDataRaise
    \/ LoadCache
    \/ SendRequest
    \/ \E exc \in {"ConnectionError", "HTTPError"} : RequestFails(exc)
    \/ NoContainer
    \/ \E shape \in PageShapes : PageArrives(shape)
    \/ RespectfulDelay
    \/ FinishPass

SpecApp == InitApp /\ [][NextApp]_vars

\* ------------------------------------------------------- reading the log
\* the offsets of the page requests of the current call, in order
Requests ==
    LET reqs == SelectSeq(log, LAMBDA ev : ev.e = "request")
    IN  [i \in 1..Len(reqs) |-> reqs[i].start]

\* how many events of a kind the current call has logged
Count(kind) == Len(SelectSeq(log, LAMBDA ev : ev.e = kind))

\* the 10 offsets 0, 25, ..., 225
AllOffsets == [k \in 1..(RangeStop \div RangeStep) |-> (k - 1) * RangeStep]

\* the current call went (or is going) through the network pass
NetworkPass == pc \in {"loop", "await", "delay", "done", "raised"} /\ ~CacheHit

\* the fragments of the k-th page answered in this call
ServedItems(k) == PageItems((k - 1) * RangeStep, served[k])

\* ----------------------------------------------------------------- claims

\* C1: a call with caching enabled, force_refresh false and an existing cache
\* file returns the records loaded from that file, sends no page request,
\* makes no pacing delay and does not write the cache.
C1_CacheHitReadsOnlyCache ==
    (pc # "idle" /\ CacheHit) =>
        /\ pc \in {"load", "done"}
        /\ Count("request") = 0 /\ Count("delay") = 0 /\ Count("write") = 0
        /\ cache = cache0
        /\ pc = "done" => result = LoadFromCache(cache0)

C1_Witness == pc = "done" /\ CacheHit /\ calls = 2 /\ Len(result) > 2

\* C2: when a page of the pass lacks the list container, the call raises,
\* returns nothing, writes no cache, and the cache file is as it was when
\* the pass started.
C2_NoContainerAborts ==
    (pc = "raised" /\ error = "ValueError") =>
        /\ result = NoResult
        /\ Count("write") = 0
        /\ cache = cache0

C2_Witness ==
    /\ pc = "raised" /\ error = "ValueError"
    /\ start > 0 /\ Len(movies) > 0 /\ use_cache /\ cache0 # NoFile

\* C3: a failed page request aborts the pass without a retry: no offset is
\* requested twice, none after the failed one, the failure reaches the
\* caller and the cache is not written.
C3_FailedRequestAborts ==
    LET reqs == Requests
    IN  /\ \A i \in 1..(Len(reqs) - 1) : reqs[i] < reqs[i + 1]
        /\ (pc = "raised" /\ error \in {"ConnectionError", "HTTPError"}) =>
            /\ result = NoResult
            /\ reqs # <<>> /\ reqs[Len(reqs)] = start
            /\ Count("write") = 0
            /\ cache = cache0

C3_Witness ==
    /\ pc = "raised" /\ error = "HTTPError"
    /\ Len(Requests) > 1 /\ Len(Requests) < Len(AllOffsets) /\ use_cache

\* C4: a pass that completes requested each of the offsets 0, 25, ..., 225
\* exactly once, in increasing order, and at no moment are two page
\* requests in progress.
C4_EveryOffsetOnceInOrder ==
    /\ Cardinality(inflight) <= 1
    /\ (pc = "done" /\ ~CacheHit) => Requests = AllOffsets

C4_Witness == pc = "done" /\ ~CacheHit /\ Len(Requests) = 10

\* C5 as stated: a pass that completes paced once between consecutive page
\* fetches and not after the final page, 9 delays for the 10 pages.
C5_Original ==
    (pc = "done" /\ ~CacheHit) => Count("delay") = (RangeStop \div RangeStep) - 1

\* the requests and delays of the log, in order
Pacing == SelectSeq(log, LAMBDA ev : ev.e \in {"request", "delay"})

\* C5 amended: a pass that completes paced exactly once after every page
\* fetch, the final page included: 10 delays for the 10 pages, one between
\* each pair of consecutive fetches and one after the last.
C5_DelayAfterEveryPage ==
    (pc = "done" /\ ~CacheHit) =>
        LET pacing == Pacing
        IN  /\ Len(pacing) = 2 * Len(AllOffsets)
            /\ \A i \in 1..Len(pacing) :
                  pacing[i].e = IF i % 2 = 1 THEN "request" ELSE "delay"
            /\ pacing[Len(pacing)].e = "delay"
            /\ Count("delay") = RangeStop \div RangeStep

C5_Witness == pc = "done" /\ ~CacheHit /\ Count("delay") = 10

\* C6: after a pass that returns with caching enabled the cache holds
\* exactly the returned records, in order, whatever it held before; the
\* file is written once, after all 10 pages were fetched.
C6_CacheHoldsReturnedList ==
    /\ (NetworkPass /\ pc # "done") => (cache = cache0 /\ Count("write") = 0)
    /\ (pc = "done" /\ ~CacheHit /\ use_cache) =>
        /\ cache = WriteCacheDoc(result)
        /\ LoadFromCache(cache) = result
        /\ Count("write") = 1
        /\ log[Len(log)].e = "write"
        /\ Count("request") = Len(AllOffsets)

C6_Witness ==
    /\ pc = "done" /\ ~CacheHit /\ use_cache
    /\ cache0 = OldCache /\ cache # OldCache /\ Len(result) > 2

\* C7: writing a sequence of records to the cache and reading it back
\* gives the same sequence: same length and order, each of the 14 fields
\* equal, absent optionals absent, empty lists empty, populated lists with
\* their elements in order.
C7_CacheRoundTrip ==
    pc = "rt_done" =>
        /\ Len(result) = Len(movies)
        /\ \A i \in 1..Len(movies) :
              \A k \in 1..Len(MovieFields) :
                  result[i][MovieFields[k]] = movies[i][MovieFields[k]]
        /\ result = movies

C7_Witness ==
    /\ pc = "rt_done" /\ Len(movies) = 2 /\ result = movies
    /\ movies[1] = BareMovie /\ movies[2] = FullMovie
    /\ result[1].quote = PyNone /\ result[1].genres = PyList(<<>>)
    /\ result[1].directors = PyList(<<>>) /\ Len(result[2].actors.v) = 3

\* C8: two successive calls with force_refresh false on an existing cache
\* return equal record sequences; the second sends no request and the cache
\* is what it was before the first.
C8_RepeatedHitIdempotent ==
    (pc = "done" /\ CacheHit /\ prev.made /\ prev.hit) =>
        /\ result = prev.result
        /\ Count("request") = 0
        /\ cache = prev.cache0

C8_Witness ==
    pc = "done" /\ CacheHit /\ prev.made /\ prev.hit /\ Len(result) > 0

\* C9: when the extraction of an item raises, that item alone is missing
\* from the page result: every sibling whose extraction succeeds is
\* returned, and neither the page fetch nor the pass fails.
C9_OnlyFailingItemSkipped ==
    pc = "delay" =>
        LET lis == ServedItems(Len(served))
            good == {i \in 1..Len(lis) : ~ParseRaises(lis[i])}
        IN  /\ error = "none"
            /\ Len(page_movies) = Cardinality(good)
            /\ \A i \in good :
                  \E k \in 1..Len(page_movies) : page_movies[k] = _parse_movie(lis[i])

C9_Witness ==
    /\ pc = "done" /\ ~CacheHit
    /\ \E k \in 1..Len(served) :
          /\ served[k][1] = "badrank" /\ served[k][MaxItems] = "ok"
          /\ \E i \in 1..Len(result) : result[i] = _parse_movie(ServedItems(k)[MaxItems])

\* the fragments of all pages answered in this call, in page order
RECURSIVE AllServedItems(_)
AllServedItems(k) == IF k = 0 THEN <<>> ELSE AllServedItems(k - 1) \o ServedItems(k)

\* C10: the returned sequence is the records of the successfully extracted
\* fragments, pages in increasing offset order and fragments in page order,
\* none duplicated, reordered or dropped.
C10_ResultIsOrderedConcatenation ==
    (pc = "done" /\ ~CacheHit) =>
        LET kept == SelectSeq(AllServedItems(Len(served)), LAMBDA li : ~ParseRaises(li))
        IN  /\ Len(served) = Len(AllOffsets)
            /\ result = [i \in 1..Len(kept) |-> _parse_movie(kept[i])]
            /\ \A i \in 1..(Len(result) - 1) : result[i].rank.v < result[i + 1].rank.v

C10_Witness ==
    /\ pc = "done" /\ ~CacheHit /\ odd > 0
    /\ Len(result) = MaxItems * Len(AllOffsets) - 1

\* what the last reader of the cache file got
LastRead == IF error = "none" THEN [exc |-> "none", value |-> result] ELSE [exc |-> error]

\* what a reader gets from a file
ReadsOf(c) == {LoadOutcome(c), load_cached_movies(c)}

\* C11: the cache write is atomic: the file is at every moment the complete
\* previous content or the complete new content, and a reader gets one of the
\* two, never an empty or partly written document.
C11_WriteIsAtomic ==
    /\ cache \in {cache0, WriteCacheDoc(movies)}
    /\ Count("read") > 0 => LastRead \in ReadsOf(cache0) \cup ReadsOf(WriteCacheDoc(movies))

\* a reader met the file while it was cut
C11_Witness == Count("read") > 0 /\ error \in {"JSONDecodeError", "ValueError"}

\* C12: a read of the cache when the path holds no file raises the
\* not-found error to its caller and creates no file.
C12_MissingCacheRaisesNotFound ==
    [][(cache = NoFile /\ log' = Append(log, [e |-> "read"])) =>
          (error' = "FileNotFoundError" /\ result' = NoResult /\ cache' = NoFile)]_vars

C12_Witness == Count("read") = 2 /\ error = "FileNotFoundError" /\ cache = NoFile

\* C13: a call that is no cache hit (force_refresh true, caching disabled or
\* no cache file) never reads the cache, requests all 10 offsets and returns
\* only records extracted from the pages served to it, none taken from the
\* file it found.
C13_ReadsCacheOnlyOnHit ==
    (pc # "idle" /\ ~CacheHit) =>
        /\ pc # "load"
        /\ Count("read") = 0
        /\ pc = "done" =>
              /\ Requests = AllOffsets
              /\ result = ParseItems(AllServedItems(Len(served)))
              /\ cache0 = OldCache =>
                    \A i \in 1..Len(result), j \in 1..Len(OldMovies) : result[i] # OldMovies[j]

C13_Witness ==
    /\ pc = "done" /\ use_cache /\ force_refresh /\ cache0 = OldCache
    /\ Len(result) = MaxItems * Len(AllOffsets)

\* C14: the rank never aborts an item: every fragment yields a record, and a
\* fragment whose rank element is absent or holds no numeral yields one with
\* rank 0.
C14_RankNeverAborts ==
    pc = "p_done" =>
        /\ Len(parsed) = 1
        /\ (cur_li.em = PyNone \/ ~IsIntText(cur_li.em.v)) => parsed[1].rank = PyInt(0)

\* a fragment whose rank text is no numeral was skipped
C14_Witness ==
    pc = "p_done" /\ cur_li.em # PyNone /\ ~IsIntText(cur_li.em.v) /\ parsed = <<>>

\* C15: a fragment without rating element, or with a rating text that is no
\* number, yields its record with rating 0.0 and every other field as it is
\* extracted beside a good rating (the rank being absent or a numeral).
C15_BadRatingIsZero ==
    (/\ pc = "p_done"
     /\ cur_li.rating_num = PyNone \/ ~IsFloatText(cur_li.rating_num.v)
     /\ cur_li.em = PyNone \/ IsIntText(cur_li.em.v)) =>
        /\ Len(parsed) = 1
        /\ parsed[1].rating = PyFloat(0)
        /\ parsed[1] = [_parse_movie([cur_li EXCEPT !.rating_num = PyStr(<<"9", ".", "7">>)])
                           EXCEPT !.rating = PyFloat(0)]

C15_Witness ==
    /\ pc = "p_done" /\ cur_li.rating_num = PyStr(<<"x">>)
    /\ Len(parsed) = 1 /\ parsed[1].rating = PyFloat(0) /\ parsed[1].votes = PyInt(12)

\* C16: the votes are the digits of the first span of the ratings block
\* that holds a marker, or 0 when that span has no digit; the last span of
\* the star block is used only when no span of the ratings block holds a
\* marker.
C16_FallbackOnlyWithoutMarker ==
    (pc = "p_done" /\ Len(parsed) = 1) =>
        LET spans == IF cur_li.bd = PyNone THEN <<>> ELSE cur_li.bd.v
            marked == SelectSeq(spans, IsVoteSpan)
            stars == IF cur_li.star = PyNone THEN <<>> ELSE cur_li.star.v
        IN  parsed[1].votes =
                PyInt(IF marked # <<>> THEN _extract_vote_count(marked[1])
                      ELSE IF stars # <<>> THEN _extract_vote_count(stars[Len(stars)])
                      ELSE 0)

\* a marker span without digits, and votes taken from the star block
C16_Witness ==
    /\ pc = "p_done" /\ Len(parsed) = 1
    /\ cur_li.bd = PyList(<< VoteMarkShort >>)
    /\ parsed[1].votes = PyInt(56)

\* C17: every record a call of fetch_movies returns, extracted from a page
\* or rebuilt from the cache, has lists (never None) as genres, directors
\* and actors, with at most 3 directors and at most 5 actors.
C17_ListsPresentAndCapped ==
    pc = "done" =>
        \A i \in 1..Len(result) :
            /\ result[i].genres.ty = "list"
            /\ result[i].directors.ty = "list"
            /\ result[i].actors.ty = "list"
            /\ Len(result[i].directors.v) <= MaxDirectors
            /\ Len(result[i].actors.v) <= MaxActors

\* a cache hit on a file written by the pass of the call before, with a
\* record whose credits were cut to the caps
C17_Witness ==
    /\ pc = "done" /\ CacheHit /\ calls = 2 /\ cache0 # OldCache
    /\ \E i \in 1..Len(result) :
          /\ Len(result[i].directors.v) = MaxDirectors
          /\ Len(result[i].actors.v) = MaxActors

\* C18 as stated: the "other titles" span is looked at only when the item
\* has no second title span, and original_title is absent when the span
\* looked at yields no text.
C18_Original ==
    (pc = "p_done" /\ Len(parsed) = 1) =>
        LET tt == cur_li.titles
            second == IF Len(tt) > 1 THEN Strip(LStripSet(tt[2], {"/"})) ELSE <<>>
            other == IF cur_li.other # PyNone
                     THEN Strip(LStripSet(cur_li.other.v, {"/"})) ELSE <<>>
            alternate == IF other # <<>> THEN Strip(Split(other, <<"/">>)[1]) ELSE <<>>
        IN  parsed[1].original_title =
                IF Len(tt) > 1
                THEN (IF second # <<>> THEN PyStr(second) ELSE PyNone)
                ELSE (IF alternate # <<>> THEN PyStr(alternate) ELSE PyNone)

\* C18: original_title is the second title span, leading slashes and
\* surrounding blanks removed, when that is not empty; otherwise (no second
\* span, or one that is empty once stripped) the "other titles" span, if
\* there is one and its stripped text is not empty, gives the part before
\* its first slash, stripped, which is the empty string when the stripped
\* text starts with a slash; otherwise original_title is absent.
C18_OtherTitleWhenNoOriginalYet ==
    (pc = "p_done" /\ Len(parsed) = 1) =>
        LET tt == cur_li.titles
            second == IF Len(tt) > 1 THEN Strip(LStripSet(tt[2], {"/"})) ELSE <<>>
            other == IF cur_li.other # PyNone
                     THEN Strip(LStripSet(cur_li.other.v, {"/"})) ELSE <<>>
        IN  parsed[1].original_title =
                IF second # <<>> THEN PyStr(second)
                ELSE IF other # <<>> THEN PyStr(Strip(Split(other, <<"/">>)[1]))
                ELSE PyNone

\* a second title span that is only a separator, and the first alternate of
\* the "other titles" span taken
C18_Witness ==
    /\ pc = "p_done" /\ Len(parsed) = 1
    /\ Len(cur_li.titles) = 2 /\ Strip(LStripSet(cur_li.titles[2], {"/"})) = <<>>
    /\ cur_li.other # PyNone
    /\ parsed[1].original_title = PyStr(<<"A">>)

\* C19: when load_data finds a cache file, is not forced and fails to load
\* the table, it scrapes again: the scraper does not read the cache file a
\* second time, and what load_data returns is the table of a full network
\* pass, labelled newly scraped.
C19_FailedLoadScrapesAgain ==
    (ld.pc # "out" /\ ld.warned) =>
        /\ pc # "load"
        /\ Count("read") = 0
        /\ error # "JSONDecodeError"
        /\ ld.pc = "returned" =>
              /\ ld.label = NewlyScrapedLabel
              /\ Requests = AllOffsets
              /\ ld.df = movies_to_dataframe(ParseItems(AllServedItems(Len(served))))

\* the table failed to load, the scraper read the same file again, and
\* load_data raised without a single page request
C19_Witness ==
    /\ ld.pc = "raised" /\ ld.warned /\ error = "JSONDecodeError"
    /\ Count("read") = 1 /\ Count("request") = 0

\* C20: with caching disabled no step of any call reads, creates or changes
\* the cache file.
C20_DisabledCacheUntouched ==
    [][~use_cache =>
          /\ cache' = cache
          /\ pc' # "load"
          /\ \A i \in 1..Len(log') : log'[i].e \notin {"read", "write"}]_vars

\* the second call with caching disabled has returned beside the old file
C20_Witness ==
    /\ ~use_cache /\ pc = "done" /\ calls = 2 /\ cache = OldCache
    /\ Len(result) = MaxItems * Len(AllOffsets)

====
